---- MODULE Spec2Model ----
\* A model of dac-emulator/examples/visualiser.rs: the listener thread that
\* accepts stream connections and sends them over an mpsc channel, and the
\* nannou Update handler (`event`) that adopts a pending stream, drains the
\* stream's output with try_next_frame and copies the latest frame into
\* model.frame_points.
EXTENDS Integers, Sequences, FiniteSets, TLC

\* ------------------------------------------------------------------ bounds
\* How many connections listener.accept() may return in a run.
MaxConns == 3
\* How many frames one stream's output may yield in a run.
MaxFrames == 2

\* How many points a frame handed to view may hold.
MaxPoints == 3

\* ------------------------------------------------------------------ values
\* std::i16::MAX and std::u16::MAX.
I16_MAX == 32767
U16_MAX == 65535

\* Option::None for model.stream (line 51); connections are numbered from 1.
NoStream == 0
\* Option::None for latest_frame (line 69); frame_points starts as Vec::new().
NoFrame == <<>>
\* No result of try_next_frame is waiting to be matched.
NoResult == [tag |-> "NoResult", frame |-> NoFrame]

Conns == 1..MaxConns

\* The n-th frame produced over connection c: n DacPoints, tagged so that the
\* frames of a run are pairwise different.
MkFrame(c, n) == [i \in 1..n |-> [x |-> i, y |-> 0 - n, r |-> c, g |-> n, b |-> 0]]

\* The connection that produced frame f.
FrameConn(f) == f[1].r

VARIABLES
    stream,         \* model.stream: NoStream or the active connection
    frame_points,   \* model.frame_points: the points drawn by view
    stream_rx,      \* the mpsc channel's queue of sent, not yet received streams
    rx_alive,       \* the Receiver (owned by Model) has not been dropped
    pc,             \* position of the main thread in event
    output,         \* the local `output`: the connection whose output is polled
    latest_frame,   \* the local `latest_frame`
    res,            \* the result of try_next_frame being matched
    produced,       \* per connection: how many frames its output has yielded
    released,       \* per connection: how many times its ActiveStream was dropped
    acc,            \* position of the listener thread
    in_hand,        \* the stream accept() returned, not yet sent
    accepted,       \* how many connections accept() has returned
    received,       \* how many streams try_recv has returned
    polled,         \* history: the frames matched since the current tick began
    taken,          \* history: the last two values taken out of latest_frame
    tick_err,       \* history: try_next_frame returned Err in the current tick
    start_stream,   \* history: model.stream when the current tick began
    adopted,        \* history: what try_recv returned in the current tick
    superseded,     \* history: connections replaced by a newer one while active
    accept_failed,  \* history: accept() has returned Err
    send_failed,    \* history: send() has returned Err
    exit_received,  \* history: `received` when the listener thread exited, else -1
    drawn           \* what the last call of view drew

vars == <<stream, frame_points, stream_rx, rx_alive, pc, output, latest_frame,
          res, produced, released, acc, in_hand, accepted, received, polled,
          taken, tick_err, start_stream, adopted, superseded, accept_failed,
          send_failed, exit_received, drawn>>

main_vars == <<stream, frame_points, pc, output, latest_frame, res, produced,
               received, polled, taken, tick_err, start_stream, adopted,
               superseded, drawn>>

listener_vars == <<acc, in_hand, accepted, accept_failed, send_failed>>

\* ------------------------------------------------------------------ helpers
\* Mutant: the value is forgotten, not dropped.
DropLeak(rel, c) == rel

\* Dropping an ActiveStream value (NoStream: nothing to drop).
Drop(rel, c) == IF c = NoStream THEN rel ELSE [rel EXCEPT ![c] = @ + 1]

RECURSIVE DropAll(_, _)
DropAll(rel, q) == IF q = <<>> THEN rel ELSE DropAll(Drop(rel, Head(q)), Tail(q))

\* The last two entries of a history.
Last2(h) == IF Len(h) <= 2 THEN h ELSE SubSeq(h, Len(h) - 1, Len(h))

Last(s) == s[Len(s)]

\* Nothing has been drawn yet.
NoDraw == [w |-> 0, h |-> 0, lines |-> <<>>]

\* ------------------------------------------------------------------ Init
\* The Model built by `model`: no stream, no points, an empty channel, the
\* listener thread about to call accept().
model ==
    /\ stream = NoStream
    /\ frame_points = <<>>
    /\ stream_rx = <<>>
    /\ rx_alive = TRUE
    /\ pc = "idle"
    /\ output = NoStream
    /\ latest_frame = NoFrame
    /\ res = NoResult
    /\ produced = [c \in Conns |-> 0]
    /\ released = [c \in Conns |-> 0]
    /\ acc = "accept"
    /\ in_hand = NoStream
    /\ accepted = 0
    /\ received = 0
    /\ polled = <<>>
    /\ taken = <<>>
    /\ tick_err = FALSE
    /\ start_stream = NoStream
    /\ adopted = NoStream
    /\ superseded = {}
    /\ accept_failed = FALSE
    /\ send_failed = FALSE
    /\ exit_received = 0 - 1
    /\ drawn = NoDraw

Init == model

\* ------------------------------------------------------------------ listener thread
\* Mutant: the loop calls accept() again after an Err.
OnAcceptErrRetry == "accept"

\* while let Ok(..) = listener.accept(): an Err ends the loop.
OnAcceptErr == "exited"

\* Mutant: a channel of capacity 1 that discards what does not fit.
SendCapacityOne(q, c) == IF Len(q) < 1 THEN Append(q, c) ELSE q

\* stream_tx.send on the channel made by mpsc::channel(): asynchronous and
\* unbounded, the value is appended whatever the queue holds.
Send(q, c) == Append(q, c)

\* listener.accept() and the `while let` match on its result.
listener_accept ==
    /\ acc = "accept"
    /\ \/ /\ accepted < MaxConns
          /\ accepted' = accepted + 1
          /\ in_hand' = accepted + 1
          /\ acc' = "send"
          /\ UNCHANGED accept_failed
       \/ /\ acc' = OnAcceptErr
          /\ accept_failed' = TRUE
          /\ UNCHANGED <<accepted, in_hand>>
    /\ exit_received' = IF acc' = "exited" THEN received ELSE exit_received
    /\ UNCHANGED <<main_vars, stream_rx, rx_alive, released, send_failed>>

\* stream_tx.send((stream, addr)); is_err (the Receiver is gone) breaks the
\* loop and the stream handed back in the SendError is dropped.
stream_tx_send ==
    /\ acc = "send"
    /\ IF rx_alive
         THEN /\ stream_rx' = Send(stream_rx, in_hand)
              /\ acc' = "accept"
              /\ UNCHANGED <<released, send_failed>>
         ELSE /\ released' = Drop(released, in_hand)
              /\ send_failed' = TRUE
              /\ acc' = "exited"
              /\ UNCHANGED stream_rx
    /\ in_hand' = NoStream
    /\ exit_received' = IF acc' = "exited" THEN received ELSE exit_received
    /\ UNCHANGED <<main_vars, rx_alive, accepted, accept_failed>>

\* ------------------------------------------------------------------ event
\* Mutant: the newest pending stream is taken.
try_recv_newest(q) == IF q = <<>> THEN NoStream ELSE q[Len(q)]

\* model.stream_rx.try_recv(): the oldest pending stream, if any.
try_recv(q) == IF q = <<>> THEN NoStream ELSE Head(q)

\* Mutant: first wins, a stream received while one is active is discarded.
AdoptFirstWins(cur, got) == IF got # NoStream /\ cur = NoStream THEN got ELSE cur

\* Mutant: the received stream is never stored.
AdoptDiscard(cur, got) == cur

\* if let Ok((stream, addr)) = try_recv() { model.stream = Some(stream) }
Adopt(cur, got) == IF got # NoStream THEN got ELSE cur

\* Mutant: try_recv's Err(Disconnected), which it returns once the listener
\* thread is gone and the channel is empty, ends the app.
AfterRecvDisconnectedFatal(s) ==
    IF acc = "exited" /\ stream_rx = <<>> THEN "stopped"
    ELSE IF s # NoStream THEN "poll" ELSE "idle"

\* Line 68: with a stream the poll loop is entered, without one event
\* returns; an Err of try_recv (Empty or Disconnected) is only not a stream.
AfterRecv(s) == IF s # NoStream THEN "poll" ELSE "idle"

\* Event::Update, lines 60-69: adopt a pending stream, then enter the poll
\* loop when there is a stream (with a fresh latest_frame), else return.
event_try_recv ==
    /\ pc = "idle"
    /\ LET got == try_recv(stream_rx)
           s   == Adopt(stream, got)
       IN /\ stream' = s
          /\ stream_rx' = IF got # NoStream THEN Tail(stream_rx) ELSE stream_rx
          /\ received' = IF got # NoStream THEN received + 1 ELSE received
          /\ released' = IF s # stream THEN Drop(released, stream) ELSE released
          /\ superseded' = IF s # stream /\ stream # NoStream
                             THEN superseded \cup {stream} ELSE superseded
          /\ output' = s
          /\ pc' = AfterRecv(s)
          /\ start_stream' = stream
          /\ adopted' = got
    /\ latest_frame' = NoFrame
    /\ polled' = <<>>
    /\ tick_err' = FALSE
    /\ UNCHANGED <<frame_points, res, produced, taken, rx_alive, listener_vars,
                   exit_received, drawn>>

\* What output.try_next_frame() may return for connection c: Err, Ok(None),
\* or Ok(Some(frame)) with the stream's next frame.
try_next_frame(c) ==
    {[tag |-> "Err", frame |-> NoFrame], [tag |-> "OkNone", frame |-> NoFrame]}
    \cup (IF produced[c] < MaxFrames
            THEN {[tag |-> "OkSome", frame |-> MkFrame(c, produced[c] + 1)]}
            ELSE {})

\* Line 71: the call output.try_next_frame().
event_try_next_frame ==
    /\ pc = "poll"
    /\ \E r \in try_next_frame(output) :
          /\ res' = r
          /\ produced' = IF r.tag = "OkSome"
                           THEN [produced EXCEPT ![output] = @ + 1]
                           ELSE produced
    /\ pc' = "match"
    /\ UNCHANGED <<stream, frame_points, stream_rx, rx_alive, output,
                   latest_frame, released, received, polled, taken, tick_err,
                   start_stream, adopted, superseded, listener_vars,
                   exit_received, drawn>>

\* Where the loop goes after the Err arm: the arm has no break.
AfterErr == "poll"

\* Mutant: the first frame of a tick is kept, later ones are dropped.
PublishKeepFirst(cell, frame) == IF cell = NoFrame THEN frame ELSE cell

\* latest_frame = Some(frame): the cell is overwritten.
Publish(cell, frame) == frame

\* Mutant: extend without clear.
DisplayNoClear(points, latest) ==
    IF latest # NoFrame THEN points \o latest ELSE points

\* Mutant: clear outside the `if let`, so a tick without a frame blanks the display.
DisplayClearAlways(points, latest) ==
    IF latest # NoFrame THEN latest ELSE <<>>

\* frame_points.clear(); frame_points.extend(frame.iter().cloned())
\* when latest_frame is Some, else frame_points is left alone.
Display(points, latest) ==
    IF latest # NoFrame THEN [i \in 1..Len(latest) |-> latest[i]] ELSE points

\* Mutant: the Err arm without model.stream.take().
MatchErrNoTake ==
    /\ res.tag = "Err"
    /\ tick_err' = TRUE
    /\ pc' = "poll"
    /\ UNCHANGED <<stream, released, frame_points, latest_frame, polled, taken>>

\* Err(_) => { println!("Stream shutdown."); model.stream.take(); }
MatchErr ==
    /\ res.tag = "Err"
    /\ stream' = NoStream
    /\ released' = Drop(released, stream)
    /\ tick_err' = TRUE
    /\ pc' = AfterErr
    /\ UNCHANGED <<frame_points, latest_frame, polled, taken>>

\* Ok(None) => break, then lines 82-85.
MatchNone ==
    /\ res.tag = "OkNone"
    /\ frame_points' = Display(frame_points, latest_frame)
    /\ taken' = Last2(Append(taken, latest_frame))
    /\ latest_frame' = NoFrame
    /\ pc' = "idle"
    /\ UNCHANGED <<stream, released, tick_err, polled>>

\* Ok(Some(frame)) => { latest_frame = Some(frame); }
MatchSome ==
    /\ res.tag = "OkSome"
    /\ latest_frame' = Publish(latest_frame, res.frame)
    /\ polled' = Append(polled, res.frame)
    /\ pc' = "poll"
    /\ UNCHANGED <<stream, released, tick_err, frame_points, taken>>

\* Lines 71-85: the match on the result of try_next_frame.
event_match ==
    /\ pc = "match"
    /\ (MatchErr \/ MatchNone \/ MatchSome)
    /\ res' = NoResult
    /\ UNCHANGED <<stream_rx, rx_alive, output, produced, received,
                   start_stream, adopted, superseded, listener_vars,
                   exit_received, drawn>>

\* nannou::run returns and main ends: Model is dropped, and with it the
\* active stream, the Receiver and every stream still queued in the channel.
main_exit ==
    /\ pc = "idle"
    /\ pc' = "stopped"
    /\ rx_alive' = FALSE
    /\ released' = DropAll(Drop(released, stream), stream_rx)
    /\ stream' = NoStream
    /\ stream_rx' = <<>>
    /\ UNCHANGED <<frame_points, output, latest_frame, res, produced, received,
                   polled, taken, tick_err, start_stream, adopted, superseded,
                   listener_vars, exit_received, drawn>>

\* ------------------------------------------------------------------ view
\* An f32 quotient kept exact, as numerator over a positive denominator.
\* Rounding to f32 is monotone and leaves 0.0 and 1.0 alone, so comparisons
\* with 0, 1 and -1 come out as they do on the exact value.
Rat(n, d) == [num |-> n, den |-> d]

\* let t_x = |xi: i16| (xi as f32 / std::i16::MAX as f32) * win_rect.w() * 0.5
t_x(xi, w) == Rat(xi * w, I16_MAX * 2)

\* let t_y = |yi: i16| (yi as f32 / std::i16::MAX as f32) * win_rect.h() * 0.5
t_y(yi, h) == Rat(yi * h, I16_MAX * 2)

\* let t_color = |color: u16| color as f32 / std::u16::MAX as f32
t_color(color) == Rat(color, U16_MAX)

\* convert_point: (pt2(x, y), (r, g, b))
convert_point(pt, w, h) ==
    [p   |-> <<t_x(pt.x, w), t_y(pt.y, h)>>,
     rgb |-> <<t_color(pt.r), t_color(pt.g), t_color(pt.b)>>]

\* slice::windows(2): every pair of neighbours, in order; none for fewer
\* than two elements.
RECURSIVE windows2(_)
windows2(s) ==
    IF Len(s) < 2 THEN <<>> ELSE <<SubSeq(s, 1, 2)>> \o windows2(Tail(s))

\* Mutant: the line takes the colour of window[1].
draw_line_trailing_colour(window, w, h) ==
    [a   |-> convert_point(window[1], w, h).p,
     b   |-> convert_point(window[2], w, h).p,
     rgb |-> convert_point(window[2], w, h).rgb]

\* draw.line().points(ap, bp).rgb(ar, ag, ab)
draw_line(window, w, h) ==
    [a   |-> convert_point(window[1], w, h).p,
     b   |-> convert_point(window[2], w, h).p,
     rgb |-> convert_point(window[1], w, h).rgb]

\* The window rectangles app.window_rect() may return: <<w, h>>.
WinRects == {<<2, 2>>, <<640, 480>>}

\* view: one line per window of model.frame_points.
view ==
    /\ pc = "idle"
    /\ \E win \in WinRects :
          LET ws == windows2(frame_points)
          IN drawn' = [w |-> win[1], h |-> win[2],
                       lines |-> [i \in 1..Len(ws) |-> draw_line(ws[i], win[1], win[2])]]
    /\ UNCHANGED <<stream, frame_points, stream_rx, rx_alive, pc, output,
                   latest_frame, res, produced, released, received, polled,
                   taken, tick_err, start_stream, adopted, superseded,
                   listener_vars, exit_received>>

\* The DacPoints view is tried on: the ends and the middle of i16 for x and
\* y, the ends and the middle of u16 for the colours.
ViewPoints ==
    {[x |-> px, y |-> py, r |-> c[1], g |-> c[2], b |-> c[3]] :
        px \in {0 - 32768, 0, 32767}, py \in {0 - 32768, 0, 32767},
        c \in {<<65535, 0, 32768>>, <<0, 65535, 1>>}}

\* The frames view is tried on: up to MaxPoints points.
RECURSIVE FramesUpTo(_)
FramesUpTo(n) ==
    IF n = 0 THEN {<<>>}
    ELSE LET shorter == FramesUpTo(n - 1)
         IN shorter \cup {Append(f, pt) : f \in {g \in shorter : Len(g) = n - 1},
                                          pt \in ViewPoints}

\* The Model as view may find it: any frame in frame_points, the rest as
\* `model` leaves it.
ViewInit ==
    /\ frame_points \in FramesUpTo(MaxPoints)
    /\ stream = NoStream
    /\ stream_rx = <<>>
    /\ rx_alive = TRUE
    /\ pc = "idle"
    /\ output = NoStream
    /\ latest_frame = NoFrame
    /\ res = NoResult
    /\ produced = [c \in Conns |-> 0]
    /\ released = [c \in Conns |-> 0]
    /\ acc = "accept"
    /\ in_hand = NoStream
    /\ accepted = 0
    /\ received = 0
    /\ polled = <<>>
    /\ taken = <<>>
    /\ tick_err = FALSE
    /\ start_stream = NoStream
    /\ adopted = NoStream
    /\ superseded = {}
    /\ accept_failed = FALSE
    /\ send_failed = FALSE
    /\ exit_received = 0 - 1
    /\ drawn = NoDraw

ViewNext == view

\* view alone, on every frame of FramesUpTo(MaxPoints).
ViewSpec == ViewInit /\ [][ViewNext]_vars

\* ------------------------------------------------------------------ specifications
Next ==
    \/ listener_accept
    \/ stream_tx_send
    \/ event_try_recv
    \/ event_try_next_frame
    \/ event_match
    \/ main_exit

Spec == Init /\ [][Next]_vars

\* The main thread keeps running the handler it is in and nannou keeps
\* delivering Update events; the listener thread runs send once accept has
\* returned. accept() itself may block for ever, and the app need never exit.
FairSpec ==
    /\ Spec
    /\ WF_vars(event_try_recv)
    /\ WF_vars(event_try_next_frame)
    /\ WF_vars(event_match)
    /\ WF_vars(stream_tx_send)

TypeOK ==
    /\ stream \in Conns \cup {NoStream}
    /\ pc \in {"idle", "poll", "match", "stopped"}
    /\ acc \in {"accept", "send", "exited"}
    /\ Len(taken) <= 2
\* ------------------------------------------------------------------ claims
\* C1: every invocation of the Update handler terminates: whatever
\* try_next_frame returns, a tick that has entered the poll loop leaves it and
\* control returns to the render cycle (pc is "idle" again).
TickTerminates == (pc \in {"poll", "match"}) ~> (pc = "idle")

\* C2: once try_next_frame has returned Err in a tick, model.stream is None
\* (for the rest of the tick and after it) and the stream that was polled has
\* been dropped exactly once; no connection is ever dropped twice.
ErrCollapsesToIdle ==
    /\ tick_err =>
          /\ stream = NoStream
          /\ released[output] = 1
    /\ \A c \in Conns : released[c] <= 1

\* C2 witness: a tick that began Connected has ended after an Err.
ErrCollapsesToIdleWitness ==
    /\ pc = "idle"
    /\ tick_err
    /\ start_stream # NoStream
    /\ stream = NoStream
    /\ released[output] = 1
\* C3: when a tick has ended after its stream yielded F1..Fn (n >= 1), the
\* displayed frame is Fn; F1..Fn-1 are never displayed, and Fn itself is not
\* displayed before the poll loop has ended.
DrainToLatest ==
    /\ pc = "idle" /\ polled # <<>> => frame_points = Last(polled)
    /\ \A i \in 1..(Len(polled) - 1) : frame_points # polled[i]
    /\ pc \in {"poll", "match"} =>
          \A i \in 1..Len(polled) : frame_points # polled[i]

\* C3 witness: a tick has ended in which two frames were yielded, and the
\* second one is displayed.
DrainToLatestWitness ==
    /\ pc = "idle"
    /\ Len(polled) = 2
    /\ frame_points = polled[2]
    /\ frame_points # polled[1]

\* C4: the hand-off cell latest_frame holds the most recently published frame
\* of the tick or nothing; what is taken out of it at the end of a tick is the
\* last frame published since the previous take, or None when nothing was
\* published since; a frame taken once is not taken again.
TakeLatestOnce ==
    /\ latest_frame = IF pc \in {"poll", "match"} /\ polled # <<>>
                        THEN Last(polled) ELSE NoFrame
    /\ pc = "idle" /\ output # NoStream =>
          /\ taken # <<>>
          /\ Last(taken) = IF polled # <<>> THEN Last(polled) ELSE NoFrame
    /\ Len(taken) = 2 /\ taken[1] # NoFrame => taken[2] # taken[1]

\* C4 witness: two consecutive takes with no publish in between gave Some,
\* then None.
TakeLatestOnceWitness ==
    /\ pc = "idle"
    /\ Len(taken) = 2
    /\ taken[1] # NoFrame
    /\ taken[2] = NoFrame
    /\ polled = <<>>

\* C5: replace-oldest. A tick that receives a stream while another one is
\* active makes the received one the active stream and drops the old one; from
\* then on the old stream's output is never polled and no frame it produced is
\* put into latest_frame or copied into frame_points.
ReplaceOldest ==
    /\ [](/\ adopted # NoStream /\ start_stream # NoStream =>
                /\ output = adopted
                /\ start_stream \in superseded
                /\ released[start_stream] = 1
                /\ (~tick_err /\ pc # "stopped" => stream = adopted)
          /\ \A c \in superseded :
                /\ stream # c
                /\ pc \in {"poll", "match"} => output # c
                /\ latest_frame # NoFrame => FrameConn(latest_frame) # c
                /\ \A i \in 1..Len(polled) : FrameConn(polled[i]) # c)
    /\ [][frame_points' # frame_points /\ frame_points' # <<>> =>
             FrameConn(frame_points') \notin superseded']_vars

\* C5 witness: a second stream replaced a first one that had produced a
\* frame, and a frame of the second one is displayed.
ReplaceOldestWitness ==
    /\ pc = "idle"
    /\ adopted # NoStream
    /\ start_stream # NoStream
    /\ produced[start_stream] >= 1
    /\ stream = adopted
    /\ frame_points # <<>>
    /\ FrameConn(frame_points) = adopted

\* How many streams the listener thread has sent.
Sent == accepted - (IF in_hand # NoStream THEN 1 ELSE 0)

IdleTickConnects ==
    pc = "idle" /\ start_stream = NoStream =>
        stream = adopted

\* C7 as amended: the same, unless try_next_frame returned Err for the
\* adopted stream in that very tick (then the state is Idle again); the
\* adopted stream is the one taken from the head of the channel.
IdleTickConnectsUnlessErr ==
    /\ pc # "stopped" /\ start_stream = NoStream /\ ~tick_err => stream = adopted
    /\ pc # "stopped" /\ start_stream = NoStream /\ tick_err =>
          adopted # NoStream /\ stream = NoStream
    /\ adopted # NoStream =>
          /\ adopted = received
          /\ \A i \in 1..Len(stream_rx) : stream_rx[i] # adopted

\* C7 witness: a tick that began Idle with a stream pending has ended
\* Connected to it.
IdleTickConnectsWitness ==
    /\ pc = "idle"
    /\ start_stream = NoStream
    /\ adopted # NoStream
    /\ stream = adopted
    /\ ~tick_err

\* C8: frame_points changes only at the end of a tick in which a frame was
\* obtained, and then to the last frame obtained; an Idle tick, a tick
\* without a frame and a tick with only an Err leave it as it was.
DisplayFrozenWithoutFrame ==
    [][frame_points' # frame_points =>
          /\ pc = "match"
          /\ res.tag = "OkNone"
          /\ polled # <<>>
          /\ frame_points' = Last(polled)]_vars

\* C8 witness: the scenario F1, F2, then no frame, then an error: the last two
\* ticks took nothing, the state is Idle and F2 is still displayed.
DisplayFrozenWithoutFrameWitness ==
    /\ pc = "idle"
    /\ tick_err
    /\ stream = NoStream
    /\ polled = <<>>
    /\ taken = <<NoFrame, NoFrame>>
    /\ frame_points = MkFrame(output, 2)

\* C9: after a poll error, ticks go on: a stream pending in the channel is
\* eventually adopted by a later tick (unless the app exits first).
RecoversAfterPollError ==
    (tick_err /\ stream_rx # <<>>) ~>
        (pc = "stopped" \/ (~tick_err /\ stream # NoStream))

\* C10 as claimed, second part: once shutdown has closed the channel the
\* listener thread eventually exits.
ShutdownStopsListener == (~rx_alive) ~> (acc = "exited")

\* C10 as amended: the listener exits for good as soon as accept() returns
\* Err or a send fails on the closed channel, and only then; nothing is
\* queued after the channel is closed.
ListenerExitsOnError ==
    /\ accept_failed \/ send_failed <=> acc = "exited"
    /\ acc = "exited" => in_hand = NoStream
    /\ ~rx_alive => stream_rx = <<>>

\* C10 witness: the channel was closed while a stream was in hand, the send
\* failed and the listener has exited.
ListenerExitsOnErrorWitness ==
    /\ ~rx_alive
    /\ send_failed
    /\ acc = "exited"
    /\ released[accepted] = 1
\* How x, y and a colour of a drawn point relate to the scale: |px| <= w/2,
\* |py| <= h/2 and 0 <= colour <= 1.
InRange(cp, w, h) ==
    /\ 0 - cp.p[1].den * w <= cp.p[1].num * 2 /\ cp.p[1].num * 2 <= cp.p[1].den * w
    /\ 0 - cp.p[2].den * h <= cp.p[2].num * 2 /\ cp.p[2].num * 2 <= cp.p[2].den * h
    /\ \A k \in 1..3 : 0 <= cp.rgb[k].num /\ cp.rgb[k].num <= cp.rgb[k].den

\* C14: for every sample drawn, the position divided by the scale lies in
\* [-1, 1] and each colour in [0, 1].
NormalizedInRange ==
    \A i \in 1..Len(drawn.lines) :
        /\ InRange([p |-> drawn.lines[i].a, rgb |-> drawn.lines[i].rgb], drawn.w, drawn.h)
        /\ InRange([p |-> drawn.lines[i].b, rgb |-> drawn.lines[i].rgb], drawn.w, drawn.h)

\* C15: a frame of n samples is drawn as n-1 lines (none for n <= 1); line i
\* runs from the converted s_i to the converted s_(i+1) and has the colour
\* of s_i.
SegmentsFollowPairs ==
    drawn # NoDraw =>
        LET n == Len(frame_points)
        IN /\ Len(drawn.lines) = IF n >= 2 THEN n - 1 ELSE 0
           /\ \A i \in 1..Len(drawn.lines) :
                 /\ drawn.lines[i].a = <<t_x(frame_points[i].x, drawn.w),
                                         t_y(frame_points[i].y, drawn.h)>>
                 /\ drawn.lines[i].b = <<t_x(frame_points[i + 1].x, drawn.w),
                                         t_y(frame_points[i + 1].y, drawn.h)>>
                 /\ drawn.lines[i].rgb = <<t_color(frame_points[i].r),
                                           t_color(frame_points[i].g),
                                           t_color(frame_points[i].b)>>

\* C15 witness: three samples drawn as two lines, the first two samples of
\* different colours and the first line in the colour of the first.
SegmentsFollowPairsWitness ==
    /\ Len(frame_points) = 3
    /\ Len(drawn.lines) = 2
    /\ frame_points[1].r # frame_points[2].r
    /\ drawn.lines[1].rgb[1] = t_color(frame_points[1].r)
    /\ drawn.lines[2].b[1] = t_x(frame_points[3].x, drawn.w)
\* Where a connection can be.
InHand(c) == in_hand = c
Pending(c) == \E i \in 1..Len(stream_rx) : stream_rx[i] = c
Active(c) == stream = c
Released(c) == released[c] >= 1
Places(c) == {k \in 1..4 : \/ k = 1 /\ InHand(c)
                           \/ k = 2 /\ Pending(c)
                           \/ k = 3 /\ Active(c)
                           \/ k = 4 /\ Released(c)}

\* C11 as claimed: every accepted connection is in exactly one of: pending in
\* the channel, the active stream, released.
HeldInOneOfThree ==
    \A c \in 1..accepted : Cardinality(Places(c) \ {1}) = 1

\* C11 as amended: at most one connection is active; every accepted
\* connection is in exactly one of: in the listener's hand between accept and
\* send, pending in the channel, the active stream, released (once); the
\* k-th stream received is the k-th sent, so none is adopted twice and none
\* is both pending and active.
HeldInOnePlace ==
    /\ \A c \in Conns :
          /\ Cardinality(Places(c)) = IF c <= accepted THEN 1 ELSE 0
          /\ released[c] <= 1
          /\ Cardinality({i \in 1..Len(stream_rx) : stream_rx[i] = c}) <= 1
    /\ Cardinality({c \in 1..received : released[c] = 0}) <= 1
    /\ stream # NoStream => stream = received
    /\ adopted # NoStream => adopted <= received
    /\ \A i \in 1..Len(stream_rx) : stream_rx[i] > received

\* C11 witness: one stream released, one active, one pending.
HeldInOnePlaceWitness ==
    /\ released[1] = 1
    /\ stream = 2
    /\ stream_rx = <<3>>

\* C12: what is displayed is a frame its connection produced, and every
\* change of the display goes to a later frame of the same connection or to
\* a frame of a connection adopted later: the frames displayed of one
\* connection follow the order in which it produced them, without repeats.
DisplayedInOrder ==
    /\ [](frame_points # <<>> =>
            \E c \in Conns : \E n \in 1..produced[c] :
                frame_points = MkFrame(c, n))
    /\ [][frame_points' # frame_points /\ frame_points # <<>> =>
             \/ FrameConn(frame_points') > FrameConn(frame_points)
             \/ /\ FrameConn(frame_points') = FrameConn(frame_points)
                /\ Len(frame_points') > Len(frame_points)]_vars

\* C12 witness: the first and then the second frame of the active stream
\* were displayed, in two ticks.
DisplayedInOrderWitness ==
    /\ stream # NoStream
    /\ taken = <<MkFrame(stream, 1), MkFrame(stream, 2)>>
    /\ frame_points = MkFrame(stream, 2)

\* C13: the step in which the listener thread exits changes nothing of the
\* Model or the channel; ticks stop only when the app exits; with the
\* listener gone a tick still adopts the stream at the head of the channel and
\* still copies the latest frame of the polled stream into frame_points.
ListenerExitIsolated ==
    /\ [][acc' = "exited" /\ acc # "exited" =>
             UNCHANGED <<stream, frame_points, stream_rx, rx_alive, pc, output,
                         latest_frame, res, received, produced>>]_vars
    /\ [](pc = "stopped" => ~rx_alive)
    /\ [][acc = "exited" /\ pc = "idle" /\ pc' # "stopped" /\ stream_rx # <<>> =>
             /\ stream' = Head(stream_rx)
             /\ output' = Head(stream_rx)
             /\ pc' = "poll"]_vars
    /\ [][acc = "exited" /\ pc = "match" /\ res.tag = "OkNone"
            /\ latest_frame # NoFrame => frame_points' = latest_frame]_vars

\* C13 witness: after accept() failed, a stream that was pending has been
\* adopted and a frame of it is displayed.
ListenerExitIsolatedWitness ==
    /\ acc = "exited"
    /\ accept_failed
    /\ exit_received >= 0
    /\ received > exit_received
    /\ pc = "idle"
    /\ stream = received
    /\ frame_points # <<>>
    /\ FrameConn(frame_points) = received

\* C16: once try_next_frame has returned Err in a tick, the output is not
\* polled again in that tick (so no later frame and no second Err comes of it).
NoPollAfterErr == tick_err => res = NoResult

\* C17: the channel loses at most one stream per step, and only at the start
\* of a tick, to become the active stream; it is the oldest one pending; the
\* poll loop entered with it is left only through a call of try_next_frame.
OnePerTickFifo ==
    /\ [][pc' # "stopped" /\ Len(stream_rx') < Len(stream_rx) =>
             /\ pc = "idle"
             /\ stream_rx' = Tail(stream_rx)
             /\ stream' = Head(stream_rx)
             /\ output' = Head(stream_rx)
             /\ pc' = "poll"
             /\ \A i \in 1..Len(stream_rx') : stream_rx'[i] > stream']_vars
    /\ [][pc = "poll" /\ pc' # "poll" => pc' = "match" /\ res' # NoResult]_vars
    /\ [][stream # NoStream /\ stream' # stream /\ stream' # NoStream =>
             pc = "idle" /\ stream' = stream + 1]_vars

\* C17 witness: three streams were pending when a tick began Idle; after it
\* the oldest is active and the two newer ones are still pending.
OnePerTickFifoWitness ==
    /\ pc = "idle"
    /\ start_stream = NoStream
    /\ adopted = 1
    /\ stream = 1
    /\ stream_rx = <<2, 3>>
====
